---- MODULE Spec2Model ----
(***************************************************************************)
(* Model of the two state holders of the portfolio site: the contact form  *)
(* (portfolio-refresh/src/components/Contact.tsx) and the theme provider   *)
(* (ThemeProvider, with the Navigation that toggles it).                   *)
(*                                                                         *)
(* The component holds two pieces of React state, formData and status.     *)
(* handleChange runs on every input event, handleSubmit on the form's      *)
(* submit event.  handleSubmit is an async function: its synchronous part  *)
(* sets status to 'submitting' and issues the fetch with the formData of   *)
(* the render it was created in; its continuation runs when the request    *)
(* settles and sets status (and, on success, formData).  React re-renders  *)
(* after each event and after each continuation, so every handler sees the *)
(* state left by the previous step.                                        *)
(*                                                                         *)
(* ThemeProvider holds theme and mounted.  Its mount effect reads          *)
(* localStorage and the colour-scheme media query once; its apply effect   *)
(* runs after every render in which theme or mounted changed and writes    *)
(* the theme to the class list of the document root and to localStorage.   *)
(* An action is an event together with the render and the effects that     *)
(* follow it.                                                              *)
(***************************************************************************)
EXTENDS Naturals, Sequences, FiniteSets

\* Number of requests that may be outstanding at once (the code has no limit).
MaxInFlight == 2

VARIABLES
    formData,   \* useState<FormData>: [name, email, message]
    status,     \* useState<'idle' | 'submitting' | 'success' | 'error'>
    pending,    \* requests issued by fetch and not yet settled: their JSON bodies
    uncaught,   \* TRUE once an exception has left handleSubmit's promise unhandled
    lastOp,     \* the operation that produced the current state (history)
    theme,      \* useState<Theme>('light')
    mounted,    \* useState(false)
    localStorage,       \* the origin's storage: key -> <<>> (no item) or <<value>>
    rootClasses,        \* document.documentElement.classList
    systemPrefersDark,  \* matchMedia('(prefers-color-scheme: dark)').matches
    initializedBefore   \* TRUE once a session before the current one has
                        \* run the mount effect (history)

contactVars == <<formData, status, pending, uncaught>>

themeVars ==
    <<theme, mounted, localStorage, rootClasses, systemPrefersDark, initializedBefore>>

vars == <<formData, status, pending, uncaught, lastOp,
          theme, mounted, localStorage, rootClasses, systemPrefersDark,
          initializedBefore>>

----------------------------------------------------------------------------
\* The form record and the values an input event may carry.

FieldNames == {"name", "email", "message"}

FieldValues(f) ==
    CASE f = "name"    -> {"", "Ada", "Grace"}
      [] f = "email"   -> {"", "ada@example.com"}
      [] f = "message" -> {"", "Hello"}

EmptyForm == [name |-> "", email |-> "", message |-> ""]

Statuses == {"idle", "submitting", "success", "error"}

\* Variant of RequestBody: the sender's name taken from the email field.
RequestBodyFromEmail(fd) ==
    [name      |-> fd.name,
     email     |-> fd.email,
     message   |-> fd.message,
     subject   |-> <<"kelvinma.com Inquiry from ", fd.email>>,
     from_name |-> fd.email,
     botcheck  |-> FALSE]

\* JSON.stringify({... name, email, message, subject, from_name, botcheck})
RequestBody(fd) ==
    [name      |-> fd.name,
     email     |-> fd.email,
     message   |-> fd.message,
     subject   |-> <<"kelvinma.com Inquiry from ", fd.name>>,
     from_name |-> fd.name,
     botcheck  |-> FALSE]

----------------------------------------------------------------------------
\* JavaScript values met when the response is read.  A value is [t, v]: its
\* type and its literal text.

Undefined == [t |-> "undefined", v |-> "undefined"]
JsTrue    == [t |-> "boolean", v |-> "true"]
JsFalse   == [t |-> "boolean", v |-> "false"]
JsZero    == [t |-> "number", v |-> "0"]
JsOne     == [t |-> "number", v |-> "1"]
JsStrFalse == [t |-> "string", v |-> "false"]

\* ToBoolean, as applied by `if (data.success)`.
Truthy(x) ==
    CASE x.t = "undefined" -> FALSE
      [] x.t = "null"      -> FALSE
      [] x.t = "boolean"   -> x.v = "true"
      [] x.t = "number"    -> x.v \notin {"0", "NaN"}
      [] x.t = "string"    -> x.v # ""
      [] OTHER             -> TRUE

\* Response bodies.  kind: "invalid" is text that is not JSON, "null" the JSON
\* null, "string" a JSON string, "object" a JSON object whose success member
\* is `success` (Undefined when the member is absent).
SuccessMembers == {Undefined, JsTrue, JsFalse, JsZero, JsOne, JsStrFalse}

Docs ==
    {[kind |-> k, success |-> Undefined] : k \in {"invalid", "null", "string"}}
    \cup {[kind |-> "object", success |-> s] : s \in SuccessMembers}

HttpStatuses == {200, 500}

\* How a request settles: the fetch promise rejects (connection refused,
\* network error), or it resolves with a response of some HTTP status and
\* body.  fetch resolves for every HTTP status.
NoDoc == [kind |-> "none", success |-> Undefined]

Outcomes ==
    {[transport |-> "rejected", http |-> 0, doc |-> NoDoc]}
    \cup {[transport |-> "resolved", http |-> h, doc |-> d] :
              h \in HttpStatuses, d \in Docs}

NoOutcome == [transport |-> "none", http |-> 0, doc |-> NoDoc]

----------------------------------------------------------------------------
\* The theme provider's surroundings.

\* Keys of the origin's storage: the provider's own and any other.
StorageKeys == {"theme", "other"}

\* What a session may find under "theme": nothing, or a string left there by
\* an earlier session or by another writer of the origin's storage.
SavedValues == {<<>>, <<"">>, <<"light">>, <<"dark">>, <<"system">>}

\* localStorage.getItem(k): <<>> stands for null.
getItem(k) == localStorage[k]

\* The JavaScript value of a getItem result.
JsOfItem(item) ==
    IF item = <<>> THEN [t |-> "null", v |-> "null"]
                   ELSE [t |-> "string", v |-> item[1]]

----------------------------------------------------------------------------
\* Sequence helper: s without its i-th element.
RemoveAt(s, i) == SubSeq(s, 1, i - 1) \o SubSeq(s, i + 1, Len(s))

\* A history entry: the operation, its argument (the field of an updateField,
\* the origin of a submit), the outcome a request settled with, and the
\* status the operation started from.
Op(op, arg, o) == [op |-> op, arg |-> arg, outcome |-> o, from |-> status]

Init ==
    /\ formData = EmptyForm
    /\ status = "idle"
    /\ pending = <<>>
    /\ uncaught = FALSE
    /\ lastOp = [op |-> "init", arg |-> "", outcome |-> NoOutcome, from |-> "idle"]
    /\ theme = "light"
    /\ mounted = FALSE
    /\ localStorage \in {[k \in StorageKeys |-> IF k = "theme" THEN s ELSE <<>>] :
                             s \in SavedValues}
    /\ rootClasses = {}
    /\ systemPrefersDark \in BOOLEAN
    /\ initializedBefore = FALSE

----------------------------------------------------------------------------
\* Variants of handleChange: an edit after success or error returns status to
\* idle; the inputs are disabled while the request is pending.
handleChangeLockedWhileSubmitting(f, v) ==
    /\ status # "submitting"
    /\ formData' = [formData EXCEPT ![f] = v]
    /\ lastOp' = Op("updateField", f, NoOutcome)
    /\ UNCHANGED <<status, pending, uncaught>>
    /\ UNCHANGED themeVars

handleChangeResetsStatus(f, v) ==
    /\ formData' = [formData EXCEPT ![f] = v]
    /\ status' = IF status \in {"success", "error"} THEN "idle" ELSE status
    /\ lastOp' = Op("updateField", f, NoOutcome)
    /\ UNCHANGED <<pending, uncaught>>
    /\ UNCHANGED themeVars

\* handleChange: setFormData({...formData, [e.target.name]: e.target.value}).
\* The inputs carry no disabled attribute, so it runs in every status.
handleChange(f, v) ==
    /\ formData' = [formData EXCEPT ![f] = v]
    /\ lastOp' = Op("updateField", f, NoOutcome)
    /\ UNCHANGED <<status, pending, uncaught>>
    /\ UNCHANGED themeVars

UpdateField == \E f \in FieldNames : \E v \in FieldValues(f) : handleChange(f, v)

----------------------------------------------------------------------------
\* Variants of SubmitDisabled: the button never disabled; the button enabled
\* in the idle status only.
SubmitDisabledNever == FALSE

SubmitDisabledUnlessIdle == status # "idle"

\* The submit button: disabled={status === 'submitting'}.
SubmitDisabled == status = "submitting"

\* Constraint validation of the three `required` inputs, run by the browser
\* before it fires the submit event for a click on the button.
FormValid == \A f \in FieldNames : formData[f] # ""

\* handleSubmit up to its first await: preventDefault, setStatus('submitting'),
\* fetch(...) with the formData of the current render.
handleSubmit(via) ==
    /\ Len(pending) < MaxInFlight
    /\ status' = "submitting"
    /\ pending' = Append(pending, RequestBody(formData))
    /\ lastOp' = Op("submit", via, NoOutcome)
    /\ UNCHANGED <<formData, uncaught>>
    /\ UNCHANGED themeVars

\* The user activates the submit button.
SubmitClick ==
    /\ ~SubmitDisabled
    /\ FormValid
    /\ handleSubmit("control")

\* A script calls form.requestSubmit(): the browser validates the form and
\* fires the submit event; the button and its disabled attribute play no part.
RequestSubmit ==
    /\ FormValid
    /\ handleSubmit("script")

----------------------------------------------------------------------------
\* The continuation of handleSubmit once the request has settled with o.

\* Where execution leaves the try block: "catch" when `await fetch` rejects,
\* when `await response.json()` rejects, or when reading data.success throws
\* (data is null); otherwise the branch taken by `if (data.success)`.
\* response.status and response.ok are never read.
Branch(o) ==
    IF o.transport = "rejected" THEN "catch"
    ELSE IF o.doc.kind = "invalid" THEN "catch"
    ELSE IF o.doc.kind = "null" THEN "catch"
    ELSE IF Truthy(o.doc.success) THEN "then"
    ELSE "else"

\* Variants of handleSubmitSettled, each with one slip in it.

\* the catch block also resets the form
handleSubmitSettledClearsOnCatch(i, o) ==
    /\ pending' = RemoveAt(pending, i)
    /\ lastOp' = Op("response", "", o)
    /\ UNCHANGED themeVars
    /\ status' = IF Branch(o) = "then" THEN "success" ELSE "error"
    /\ formData' = IF Branch(o) = "else" THEN formData ELSE EmptyForm
    /\ UNCHANGED uncaught

\* the success branch forgets setFormData
handleSubmitSettledKeepsForm(i, o) ==
    /\ pending' = RemoveAt(pending, i)
    /\ lastOp' = Op("response", "", o)
    /\ UNCHANGED themeVars
    /\ status' = IF Branch(o) = "then" THEN "success" ELSE "error"
    /\ UNCHANGED <<formData, uncaught>>

\* `await response.json()` sits before the try block: its rejection leaves
\* handleSubmit as an unhandled rejection and status stays as it was
handleSubmitSettledJsonOutsideTry(i, o) ==
    /\ pending' = RemoveAt(pending, i)
    /\ lastOp' = Op("response", "", o)
    /\ UNCHANGED themeVars
    /\ UNCHANGED formData
    /\ IF o.transport = "resolved" /\ o.doc.kind = "invalid"
          THEN uncaught' = TRUE /\ UNCHANGED status
          ELSE /\ status' = IF Branch(o) = "then" THEN "success" ELSE "error"
               /\ UNCHANGED uncaught

\* the else and catch blocks return the form to idle
handleSubmitSettledIdleOnError(i, o) ==
    /\ pending' = RemoveAt(pending, i)
    /\ lastOp' = Op("response", "", o)
    /\ UNCHANGED themeVars
    /\ status' = IF Branch(o) = "then" THEN "success" ELSE "idle"
    /\ formData' = IF Branch(o) = "then" THEN EmptyForm ELSE formData
    /\ UNCHANGED uncaught

\* the catch block sends the request once more
handleSubmitSettledRetries(i, o) ==
    /\ lastOp' = Op("response", "", o)
    /\ UNCHANGED themeVars
    /\ UNCHANGED <<formData, uncaught>>
    /\ IF Branch(o) = "catch"
          THEN /\ pending' = Append(RemoveAt(pending, i), pending[i])
               /\ UNCHANGED status
          ELSE /\ pending' = RemoveAt(pending, i)
               /\ status' = IF Branch(o) = "then" THEN "success" ELSE "error"

\* the catch block forgets setStatus('error')
handleSubmitSettledCatchKeepsStatus(i, o) ==
    /\ pending' = RemoveAt(pending, i)
    /\ lastOp' = Op("response", "", o)
    /\ UNCHANGED themeVars
    /\ status' = CASE Branch(o) = "then" -> "success"
                   [] Branch(o) = "else" -> "error"
                   [] Branch(o) = "catch" -> status
    /\ formData' = IF Branch(o) = "then" THEN EmptyForm ELSE formData
    /\ UNCHANGED uncaught

\* the success branch also clears the origin's storage
handleSubmitSettledClearsStorage(i, o) ==
    /\ pending' = RemoveAt(pending, i)
    /\ lastOp' = Op("response", "", o)
    /\ status' = IF Branch(o) = "then" THEN "success" ELSE "error"
    /\ formData' = IF Branch(o) = "then" THEN EmptyForm ELSE formData
    /\ localStorage' = IF Branch(o) = "then" THEN [k \in StorageKeys |-> <<>>]
                                              ELSE localStorage
    /\ UNCHANGED <<uncaught, theme, mounted, rootClasses, systemPrefersDark,
                   initializedBefore>>

handleSubmitSettled(i, o) ==
    /\ pending' = RemoveAt(pending, i)
    /\ lastOp' = Op("response", "", o)
    /\ UNCHANGED themeVars
    /\ CASE Branch(o) = "then" ->
              /\ status' = "success"
              /\ formData' = EmptyForm
              /\ UNCHANGED uncaught
         [] Branch(o) = "else" ->
              /\ status' = "error"
              /\ UNCHANGED <<formData, uncaught>>
         [] Branch(o) = "catch" ->
              /\ status' = "error"
              /\ UNCHANGED <<formData, uncaught>>

RequestSettles ==
    \E i \in 1..Len(pending) : \E o \in Outcomes : handleSubmitSettled(i, o)

----------------------------------------------------------------------------
\* ThemeProvider.

\* Variants of InitialTheme: the media query consulted before storage; the
\* media query not consulted at all.
InitialThemePlatformFirst(saved, prefersDark) ==
    IF prefersDark THEN "dark"
    ELSE IF Truthy(JsOfItem(saved)) THEN saved[1]
    ELSE "light"

InitialThemeIgnoresPlatform(saved, prefersDark) ==
    IF Truthy(JsOfItem(saved)) THEN saved[1] ELSE "light"

\* Variant of InitialTheme: the stored value checked against the two themes.
InitialThemeValidated(saved, prefersDark) ==
    IF saved \in {<<"light">>, <<"dark">>} THEN saved[1]
    ELSE IF prefersDark THEN "dark"
    ELSE "light"

\* The mount effect's choice: `if (savedTheme) setTheme(savedTheme)`, else
\* setTheme(systemPrefersDark ? 'dark' : 'light').  The cast `as Theme | null`
\* checks nothing.
InitialTheme(saved, prefersDark) ==
    IF Truthy(JsOfItem(saved)) THEN saved[1]
    ELSE IF prefersDark THEN "dark"
    ELSE "light"

\* setTheme's updater: prevTheme === 'light' ? 'dark' : 'light'.
toggleTheme(prevTheme) == IF prevTheme = "light" THEN "dark" ELSE "light"

\* Variants of ApplyThemeEffect: setItem left out; the theme of the previous
\* render written to storage.
ApplyThemeEffectNoPersist(t, m) ==
    IF ~m THEN UNCHANGED <<rootClasses, localStorage>>
    ELSE /\ rootClasses' = (rootClasses \ {"light", "dark"}) \cup {t}
         /\ UNCHANGED localStorage

ApplyThemeEffectPersistsPrevious(t, m) ==
    IF ~m THEN UNCHANGED <<rootClasses, localStorage>>
    ELSE /\ rootClasses' = (rootClasses \ {"light", "dark"}) \cup {t}
         /\ localStorage' = [localStorage EXCEPT !["theme"] = <<theme>>]

\* The apply effect in a render with theme t and mounted m:
\* `if (!mounted) return`, classList.remove('light', 'dark'),
\* classList.add(theme), localStorage.setItem('theme', theme).
ApplyThemeEffect(t, m) ==
    IF ~m THEN UNCHANGED <<rootClasses, localStorage>>
    ELSE /\ rootClasses' = (rootClasses \ {"light", "dark"}) \cup {t}
         /\ localStorage' = [localStorage EXCEPT !["theme"] = <<t>>]

\* Variant of Render: the apply effect depends on [theme] alone.
RenderThemeDepOnly(t, m) ==
    /\ theme' = t
    /\ mounted' = m
    /\ IF t = theme
          THEN UNCHANGED <<rootClasses, localStorage>>
          ELSE ApplyThemeEffect(t, m)

\* A render that leaves theme t and mounted m: the apply effect runs when one
\* of its dependencies [theme, mounted] has changed.
Render(t, m) ==
    /\ theme' = t
    /\ mounted' = m
    /\ IF t = theme /\ m = mounted
          THEN UNCHANGED <<rootClasses, localStorage>>
          ELSE ApplyThemeEffect(t, m)

\* The mount effect (once per session), the render it causes and that
\* render's apply effect.
Initialize ==
    /\ ~mounted
    /\ LET savedTheme == getItem("theme") IN
          /\ Render(InitialTheme(savedTheme, systemPrefersDark), TRUE)
          /\ lastOp' = Op("initialize",
                          IF Truthy(JsOfItem(savedTheme)) THEN "localStorage"
                                                          ELSE "matchMedia",
                          NoOutcome)
    /\ UNCHANGED <<contactVars, systemPrefersDark, initializedBefore>>

\* The component tree of the application: RootLayout renders ThemeProvider
\* around its children, the page Home; Home renders Navigation and the
\* sections.
Components ==
    {"RootLayout", "ThemeProvider", "Home", "Navigation", "Hero", "About",
     "Projects", "Contact", "Footer"}

\* Variant of Parent: RootLayout renders its children without the provider.
ParentWithoutProvider ==
    [c \in Components \ {"RootLayout"} |->
        IF c \in {"ThemeProvider", "Home"} THEN "RootLayout" ELSE "Home"]

\* The component that renders each component.
Parent ==
    [c \in Components \ {"RootLayout"} |->
        CASE c = "ThemeProvider" -> "RootLayout"
          [] c = "Home"          -> "ThemeProvider"
          [] OTHER               -> "Home"]

RECURSIVE Ancestors(_)
Ancestors(c) ==
    IF c \notin DOMAIN Parent THEN {} ELSE {Parent[c]} \cup Ancestors(Parent[c])

\* useContext(ThemeContext) in component c: the value of the nearest
\* ThemeContext.Provider above c, {theme, toggleTheme} of the provider's
\* current render, or the default given to createContext, undefined.
useContext(c) ==
    IF "ThemeProvider" \in Ancestors(c)
       THEN [t |-> "object", theme |-> theme, toggleTheme |-> "toggleTheme"]
       ELSE Undefined

\* useTheme() in component c: throws when the context is undefined, else
\* returns it.
useTheme(c) ==
    LET context == useContext(c) IN
      IF context.t = "undefined" THEN [threw |-> TRUE, value |-> context]
                                 ELSE [threw |-> FALSE, value |-> context]

\* The components that call useTheme().
Consumers == {"Navigation"}

\* Navigation's two theme buttons, both with onClick={toggleTheme}.
ToggleControls == {"desktop", "mobile"}

\* A click on the theme button k: one call of the toggleTheme that
\* Navigation's useTheme() returned.
ToggleBy(k) ==
    /\ ~useTheme("Navigation").threw
    /\ Render(toggleTheme(theme), mounted)
    /\ lastOp' = Op("toggle", "once", NoOutcome)
    /\ UNCHANGED <<contactVars, systemPrefersDark, initializedBefore>>

\* A click on one of Navigation's two theme buttons.
ToggleClick == \E k \in ToggleControls : ToggleBy(k)

\* A consumer of useTheme() calls toggleTheme twice within one event: both
\* updaters are applied before the next render.
ToggleTwice ==
    /\ Render(toggleTheme(toggleTheme(theme)), mounted)
    /\ lastOp' = Op("toggle", "twice", NoOutcome)
    /\ UNCHANGED <<contactVars, systemPrefersDark, initializedBefore>>

\* The page is loaded again (reload, or a later visit): the document and both
\* components are constructed anew, requests of the old page are abandoned
\* with it, and the origin's storage is what the old page left.  The platform
\* preference may have changed in between.
NewSession ==
    /\ formData' = EmptyForm
    /\ status' = "idle"
    /\ pending' = <<>>
    /\ uncaught' = FALSE
    /\ theme' = "light"
    /\ mounted' = FALSE
    /\ rootClasses' = {}
    /\ systemPrefersDark' \in BOOLEAN
    /\ initializedBefore' = (initializedBefore \/ mounted)
    /\ lastOp' = Op("newSession", "", NoOutcome)
    /\ UNCHANGED localStorage

----------------------------------------------------------------------------
Next ==
    \/ UpdateField \/ SubmitClick \/ RequestSubmit \/ RequestSettles
    \/ Initialize \/ ToggleClick \/ ToggleTwice

Spec == Init /\ [][Next]_vars

\* The site driven through its controls only.
NextUI ==
    \/ UpdateField \/ SubmitClick \/ RequestSettles
    \/ Initialize \/ ToggleClick

SpecUI == Init /\ [][NextUI]_vars

\* The site over several page loads.
NextSessions == Next \/ NewSession

SpecSessions == Init /\ [][NextSessions]_vars

\* A first visit: nothing stored yet.
FirstVisit ==
    /\ Init
    /\ \A k \in StorageKeys : localStorage[k] = <<>>

\* A first visit in which every outstanding request settles in the end (the
\* fetch promise resolves or rejects).
SpecLive == FirstVisit /\ [][Next]_vars /\ WF_vars(RequestSettles)

----------------------------------------------------------------------------
\* Vocabulary of the properties.

IsResponse(op) == op.op = "response"

\* relay response {success: true} / {success: false}
RelayTrue(o)  == o.transport = "resolved" /\ o.doc.kind = "object" /\ o.doc.success = JsTrue
RelayFalse(o) == o.transport = "resolved" /\ o.doc.kind = "object" /\ o.doc.success = JsFalse
Rejected(o)   == o.transport = "rejected"

\* name, email and message as they were when the request was built
FieldsOf(body) == [name |-> body.name, email |-> body.email, message |-> body.message]

\* In a step that settles a request: the body of that request.
SettledBody ==
    pending[CHOOSE i \in 1..Len(pending) : pending' = RemoveAt(pending, i)]

----------------------------------------------------------------------------
\* C1 (as stated): a submit() whose relay response is {success: false} or
\* whose request throws ends with status = error and with fields equal to the
\* values they had when submit() was called.
C1_FieldsAsAtSubmit ==
    [][(IsResponse(lastOp') /\ (RelayFalse(lastOp'.outcome) \/ Rejected(lastOp'.outcome)))
          => (status' = "error" /\ formData' = FieldsOf(SettledBody))]_vars

\* C1 (amended): a submit() whose relay response is {success: false} or whose
\* request throws ends with status = error and leaves fields as they were
\* just before the outcome was handled: the values at submit() with the
\* updateField calls made while the request was pending applied.
C1_FailureLeavesFields ==
    [][(IsResponse(lastOp') /\ (RelayFalse(lastOp'.outcome) \/ Rejected(lastOp'.outcome)))
          => (status' = "error" /\ formData' = formData)]_vars

C1_Witness ==
    /\ IsResponse(lastOp)
    /\ RelayFalse(lastOp.outcome) \/ Rejected(lastOp.outcome)
    /\ status = "error"
    /\ FormValid

\* C2: a submit() whose relay response is {success: true} ends with
\* status = success and all three fields empty, and no step other than an
\* updateField changes fields unless it is a submission ending in success.
C2_SuccessResetsFields ==
    [][/\ (IsResponse(lastOp') /\ RelayTrue(lastOp'.outcome))
            => (status' = "success" /\ formData' = EmptyForm)
       /\ (lastOp'.op # "updateField" /\ formData' # formData)
            => (IsResponse(lastOp') /\ status' = "success" /\ formData' = EmptyForm)]_vars

C2_Witness ==
    /\ IsResponse(lastOp)
    /\ RelayTrue(lastOp.outcome)
    /\ lastOp.from = "submitting"
    /\ status = "success"
    /\ formData = EmptyForm

\* C3: submit() invoked while status = submitting is a no-op: it issues no
\* outbound request and leaves status and fields unchanged.
C3_SubmitWhileSubmittingIsNoOp ==
    [][(lastOp'.op = "submit" /\ status = "submitting")
          => (pending' = pending /\ status' = status /\ formData' = formData)]_vars

\* C4: with submit() triggered through the submit control only, the control
\* is disabled and cannot fire in every state where status = submitting, and
\* at most one request is in flight at any time.
C4_OneRequestInFlight ==
    /\ status = "submitting" => (SubmitDisabled /\ ~ENABLED SubmitClick)
    /\ Len(pending) <= 1

C4_Witness ==
    /\ status = "submitting"
    /\ Len(pending) = 1
    /\ FormValid
    /\ lastOp.op = "updateField"

\* The failures C5 names: the request rejects or throws, the body cannot be
\* parsed as JSON, or the parsed body reports failure (success false or absent).
IsFailure(o) ==
    \/ Rejected(o)
    \/ o.transport = "resolved" /\ o.doc.kind = "invalid"
    \/ o.transport = "resolved" /\ o.doc.kind \in {"null", "string", "object"}
                                /\ o.doc.success \in {JsFalse, Undefined}

\* C5: every failure of a submit attempt ends in status = error, and no
\* exception propagates out of submit().
C5_FailuresCollapseToError ==
    /\ [](~uncaught)
    /\ [][(IsResponse(lastOp') /\ IsFailure(lastOp'.outcome)) => status' = "error"]_vars

C5_Witness ==
    /\ IsResponse(lastOp)
    /\ lastOp.outcome.transport = "resolved"
    /\ lastOp.outcome.doc.kind = "invalid"
    /\ status = "error"
    /\ ~uncaught

\* C6: a submit() to which the relay responds with HTTP status 500, or whose
\* connection is refused, ends with status = error and fields unchanged,
\* whatever the response body contains.
C6_Http500OrRefusedIsError ==
    [][(IsResponse(lastOp') /\ (lastOp'.outcome.http = 500 \/ Rejected(lastOp'.outcome)))
          => (status' = "error" /\ formData' = formData)]_vars

\* C7: a response is treated as success only when its JSON body has the
\* boolean field success equal to true; every other body (success false,
\* absent or of a non-boolean type, any other shape) leads to status = error.
C7_SuccessOnlyOnBooleanTrue ==
    [][IsResponse(lastOp')
          => IF RelayTrue(lastOp'.outcome) THEN status' = "success"
                                           ELSE status' = "error"]_vars

\* C8 (as stated): the only status transitions that ever occur are
\* idle -> submitting on submit, submitting -> success and
\* submitting -> error on a response; success and error are never left.
C8_OnlyThreeTransitions ==
    [][status' # status
          => \/ status = "idle" /\ status' = "submitting" /\ lastOp'.op = "submit"
             \/ status = "submitting" /\ status' \in {"success", "error"}
                                      /\ IsResponse(lastOp')]_vars

\* C8 (amended): status changes only to submitting, on a submit() made in
\* idle, success or error, and to success or error, when a request settles:
\* from submitting, or from the success or error that the other of two
\* overlapping submissions has already set.  It never returns to idle, and
\* in success or error no updateField changes it.
C8_StatusTransitions ==
    [][status' # status
          => \/ status \in {"idle", "success", "error"} /\ status' = "submitting"
                                                        /\ lastOp'.op = "submit"
             \/ status = "submitting" /\ status' \in {"success", "error"}
                                      /\ IsResponse(lastOp')
             \/ status \in {"success", "error"} /\ status' \in {"success", "error"}
                                                /\ IsResponse(lastOp')]_vars

C8_Witness ==
    /\ lastOp.op = "submit"
    /\ lastOp.from = "error"
    /\ status = "submitting"

\* C9: in every state with status = error the submit control is enabled, and
\* a submit() from that state moves status to submitting and issues a new
\* outbound request.
C9_ErrorIsRecoverable ==
    /\ [](status = "error" => ~SubmitDisabled)
    /\ []((status = "error" /\ FormValid /\ Len(pending) < MaxInFlight)
              => ENABLED SubmitClick)
    /\ [][(status = "error" /\ lastOp'.op = "submit")
              => /\ status' = "submitting"
                 /\ pending' = Append(pending, RequestBody(formData))]_vars

C9_Witness ==
    /\ lastOp.op = "submit"
    /\ lastOp.arg = "control"
    /\ lastOp.from = "error"
    /\ status = "submitting"
    /\ Len(pending) = 1

\* C10: updateField(name, value) changes only the named field: the other two
\* fields, status and the outstanding requests stay as they are in every
\* state; and status is never idle again once it has left idle.
C10_UpdateFieldFrame ==
    /\ [][lastOp'.op = "updateField"
              => /\ status' = status
                 /\ pending' = pending
                 /\ \A g \in FieldNames \ {lastOp'.arg} : formData'[g] = formData[g]]_vars
    /\ [][status # "idle" => status' # "idle"]_vars

C10_Witness ==
    /\ lastOp.op = "updateField"
    /\ lastOp.from \in {"success", "error"}
    /\ status = lastOp.from
    /\ formData # EmptyForm

----------------------------------------------------------------------------
\* C11: each submit() call issues exactly one outbound request and nothing
\* else issues one, so the requests sent number the submit() calls made: a
\* submit step adds exactly one request, built from the current fields; the
\* step that settles a request, failed or not, removes that request and adds
\* none; no other step touches the outstanding requests.
C11_OneRequestPerSubmit ==
    [][/\ lastOp'.op = "submit" => pending' = Append(pending, RequestBody(formData))
       /\ IsResponse(lastOp')
            => \E i \in 1..Len(pending) : pending' = RemoveAt(pending, i)
       /\ lastOp'.op \notin {"submit", "response"} => pending' = pending]_vars

C11_Witness ==
    /\ IsResponse(lastOp)
    /\ Rejected(lastOp.outcome)
    /\ status = "error"
    /\ pending = <<>>

\* C12: once status = submitting it eventually becomes success or error,
\* given that every request settles; and status leaves submitting in no step
\* but the one that settles a request.
C12_SubmittingEnds ==
    /\ (status = "submitting") ~> (status \in {"success", "error"})
    /\ [][(status = "submitting" /\ status' # "submitting") => IsResponse(lastOp')]_vars

C12_Witness ==
    /\ status = "submitting"
    /\ lastOp.op = "toggle"
    /\ lastOp.from = "submitting"
    /\ Len(pending) = 1

\* Vocabulary of the theme properties.
HasItem(item) == item # <<>> /\ item[1] # ""

Initialized(op) == op.op = "initialize"

\* C13: initialize() with a persisted value present results in mode equal to
\* that value, "dark" giving dark and "light" giving light, whatever the
\* platform colour-scheme preference.
C13_PersistedValueWins ==
    [][(Initialized(lastOp') /\ HasItem(localStorage["theme"]))
          => theme' = localStorage["theme"][1]]_vars

C13_Witness ==
    /\ Initialized(lastOp)
    /\ lastOp.arg = "localStorage"
    /\ theme = "light"
    /\ systemPrefersDark

\* C14: initialize() with no persisted value results in dark when the
\* platform prefers the dark scheme and in light otherwise; it can always
\* run in a session not yet initialized and always ends initialized.
C14_PlatformFallback ==
    /\ [](~mounted => ENABLED Initialize)
    /\ [][Initialized(lastOp')
            => /\ mounted'
               /\ ~HasItem(localStorage["theme"])
                    => theme' = IF systemPrefersDark THEN "dark" ELSE "light"]_vars

C14_Witness ==
    /\ Initialized(lastOp)
    /\ lastOp.arg = "matchMedia"
    /\ theme = "dark"
    /\ systemPrefersDark

\* The first toggle of a session that initialized from the platform's dark
\* preference, nothing being stored.
FirstToggleAfterDarkFallback ==
    /\ Initialized(lastOp)
    /\ lastOp.arg = "matchMedia"
    /\ systemPrefersDark
    /\ lastOp'.op = "toggle"
    /\ lastOp'.arg = "once"

\* C15 (as stated): after initialize() with no persisted value and platform
\* preference dark, the persisted value is written as "dark" on the first
\* toggle().
C15_FirstToggleWritesDark ==
    [][FirstToggleAfterDarkFallback => localStorage'["theme"] = <<"dark">>]_vars

\* C15 (amended): initialize() with no persisted value and platform
\* preference dark itself writes the persisted value "dark"; the first
\* toggle() then sets mode to light and writes "light".
C15_InitWritesDarkToggleWritesLight ==
    [][/\ (Initialized(lastOp') /\ lastOp'.arg = "matchMedia" /\ systemPrefersDark)
            => localStorage'["theme"] = <<"dark">>
       /\ FirstToggleAfterDarkFallback
            => (localStorage["theme"] = <<"dark">> /\ theme' = "light"
                   /\ localStorage'["theme"] = <<"light">>)]_vars

C15_Witness ==
    /\ Initialized(lastOp)
    /\ lastOp.arg = "matchMedia"
    /\ systemPrefersDark
    /\ theme = "dark"
    /\ localStorage["theme"] = <<"dark">>
    /\ ENABLED ToggleClick

\* C16: calling toggle() twice from any initialized mode returns mode to its
\* original value: as two toggles in one event, and as a toggle undone by
\* the next one.
C16_DoubleToggleRestores ==
    [][/\ (mounted /\ lastOp'.op = "toggle" /\ lastOp'.arg = "twice") => theme' = theme
       /\ (mounted /\ lastOp'.op = "toggle" /\ lastOp'.arg = "once")
            => toggleTheme(theme') = theme]_vars

C18_ModeIsLightOrDark == theme \in {"light", "dark"}

\* C19: at all times after initialization the document root carries exactly
\* one of the two mode markers and it is the marker of the current mode;
\* before initialization it carries neither.
C19_RootMarker ==
    IF mounted THEN rootClasses \cap {"light", "dark"} = {theme}
               ELSE rootClasses \cap {"light", "dark"} = {}

\* The operations of the two state holders.
ContactOps == {"updateField", "submit", "response"}
ThemeOps == {"initialize", "toggle"}

\* C20: updateField, submit() and the arrival of a relay response leave mode,
\* the stored items and the root's classes unchanged; initialize() and
\* toggle() leave fields, status and the outstanding requests unchanged; and
\* storage changes only in a step of the theme provider, which reads and
\* writes the item under key "theme" alone.
C20_Independent ==
    [][/\ lastOp'.op \in ContactOps
            => UNCHANGED <<theme, mounted, localStorage, rootClasses>>
       /\ lastOp'.op \in ThemeOps
            => UNCHANGED <<formData, status, pending, uncaught>>
       /\ localStorage' # localStorage => lastOp'.op \in ThemeOps
       /\ \A k \in StorageKeys \ {"theme"} : localStorage'[k] = localStorage[k]]_vars

C20_Witness ==
    /\ IsResponse(lastOp)
    /\ status = "success"
    /\ mounted
    /\ theme = "dark"
    /\ localStorage["theme"] = <<"dark">>
    /\ rootClasses = {"dark"}

----------------------------------------------------------------------------
\* C21: the outbound request of a submit() carries the name, email and
\* message that fields held when submit() was invoked, with from_name equal
\* to that name, the subject derived from that name and botcheck false; and
\* no later step, an updateField in particular, alters a request already
\* sent: the outstanding requests only gain the new one or lose the settled
\* one.
C21_RequestCarriesFieldsAtSubmit ==
    [][/\ lastOp'.op = "submit"
            => /\ Len(pending') = Len(pending) + 1
               /\ SubSeq(pending', 1, Len(pending)) = pending
               /\ LET sent == pending'[Len(pending')] IN
                     /\ FieldsOf(sent) = formData
                     /\ sent.from_name = formData.name
                     /\ sent.subject = <<"kelvinma.com Inquiry from ", formData.name>>
                     /\ sent.botcheck = FALSE
       /\ lastOp'.op = "updateField" => pending' = pending
       /\ lastOp'.op # "submit"
            => \/ pending' = pending
               \/ \E i \in 1..Len(pending) : pending' = RemoveAt(pending, i)]_vars

C21_Witness ==
    /\ lastOp.op = "updateField"
    /\ lastOp.arg = "name"
    /\ lastOp.from = "submitting"
    /\ Len(pending) = 1
    /\ formData.name = "Grace"
    /\ pending[1].name = "Ada"
    /\ pending[1].from_name = "Ada"
    /\ pending[1].subject = <<"kelvinma.com Inquiry from ", "Ada">>

\* C22: updateField is accepted while status = submitting, for every field
\* and value; when the submission ends in error the fields, edits made while
\* the request was pending included, are kept, and when it ends in success
\* all three fields become empty.
C22_EditsWhilePending ==
    /\ [](status = "submitting"
            => \A f \in FieldNames : \A v \in FieldValues(f) : ENABLED handleChange(f, v))
    /\ [][IsResponse(lastOp')
            => /\ status' \in {"success", "error"}
               /\ status' = "error" => formData' = formData
               /\ status' = "success" => formData' = EmptyForm]_vars

\* A submission has ended in error with a form that could not have been
\* submitted: it was edited while the request was pending.
C22_Witness ==
    /\ IsResponse(lastOp)
    /\ lastOp.from = "submitting"
    /\ status = "error"
    /\ ~FormValid
    /\ formData # EmptyForm

\* C23: in every reachable state a request is outstanding if and only if
\* status = submitting, and a response is handled in status submitting only:
\* it never overwrites the status set by another submission.
C23_PendingIffSubmitting ==
    /\ [](pending # <<>> <=> status = "submitting")
    /\ [][IsResponse(lastOp') => status = "submitting"]_vars

\* C24: initialization itself writes the resolved mode to storage and to the
\* root's class list, also when the mode is the default light; once a session
\* has initialized the persisted value is never absent again; and every
\* session after one that initialized takes its mode from storage, whatever
\* the platform preference.
C24_InitializationPersists ==
    /\ [][Initialized(lastOp')
            => /\ localStorage'["theme"] = <<theme'>>
               /\ theme' \in rootClasses'
               /\ rootClasses' \cap {"light", "dark"} \subseteq {theme'}]_vars
    /\ []((mounted \/ initializedBefore) => HasItem(localStorage["theme"]))
    /\ [][(Initialized(lastOp') /\ initializedBefore)
            => /\ lastOp'.arg = "localStorage"
               /\ theme' = localStorage["theme"][1]]_vars

\* A later session has initialized to light, from storage, on a platform
\* that prefers dark.
C24_Witness ==
    /\ Initialized(lastOp)
    /\ initializedBefore
    /\ systemPrefersDark
    /\ theme = "light"
    /\ localStorage["theme"] = <<"light">>
    /\ rootClasses = {"light"}

\* The two themes.
Themes == {"light", "dark"}

\* C25: a non-empty persisted value other than "light" or "dark" is adopted
\* at initialization as the mode and written back to storage and to the root
\* as it is; the first toggle() then sets mode to light, and an initialized
\* mode within {light, dark} stays there; an empty-string persisted value is
\* treated as absent.
C25_UnvalidatedValueAdopted ==
    [][/\ (Initialized(lastOp') /\ HasItem(localStorage["theme"])
                                /\ localStorage["theme"][1] \notin Themes)
            => /\ theme' = localStorage["theme"][1]
               /\ localStorage'["theme"] = localStorage["theme"]
               /\ localStorage["theme"][1] \in rootClasses'
       /\ (lastOp'.op = "toggle" /\ lastOp'.arg = "once" /\ theme \notin Themes)
            => theme' = "light"
       /\ (mounted /\ theme \in Themes) => theme' \in Themes
       /\ lastOp'.op = "toggle" => theme' \in Themes
       /\ (Initialized(lastOp') /\ localStorage["theme"] = <<"">>)
            => /\ lastOp'.arg = "matchMedia"
               /\ theme' = IF systemPrefersDark THEN "dark" ELSE "light"]_vars

\* The first toggle after a session adopted the stored "system".
C25_Witness ==
    /\ lastOp.op = "toggle"
    /\ lastOp.arg = "once"
    /\ mounted
    /\ theme = "light"
    /\ "system" \in rootClasses
    /\ localStorage["theme"] = <<"light">>

\* C26: useTheme() raises an error exactly where no ThemeProvider is above
\* the caller and otherwise returns the provider's current theme and toggle;
\* in the application every caller has the provider above it, so the error
\* never occurs, and both theme buttons of the navigation are live in every
\* state and toggle the one mode.
C26_UseThemeWithinProvider ==
    /\ [](\A c \in Components :
            /\ useTheme(c).threw <=> "ThemeProvider" \notin Ancestors(c)
            /\ ~useTheme(c).threw
                  => /\ useTheme(c).value.theme = theme
                     /\ useTheme(c).value.toggleTheme = "toggleTheme")
    /\ [](\A c \in Consumers : ~useTheme(c).threw)
    /\ [](\A k \in ToggleControls : ENABLED ToggleBy(k))
    /\ [][\A k \in ToggleControls : ToggleBy(k) => theme' = toggleTheme(theme)]_vars

C26_Witness ==
    /\ lastOp.op = "toggle"
    /\ lastOp.arg = "once"
    /\ mounted
    /\ useTheme("RootLayout").threw
    /\ ~useTheme("Navigation").threw
    /\ useTheme("Navigation").value.theme = "dark"
    /\ theme = "dark"

====
